---- MODULE Spec2Model ----
(***************************************************************************)
(* Service descriptor synthesis (Service, HeadlessService,                 *)
(* MonitoringService) and the default instrumentation builder              *)
(* (getDefaultInstrumentation) of the CloudWatch agent operator.           *)
(*                                                                         *)
(* Go pointers are modelled as options: Nil is the nil pointer / nil error *)
(* and Ptr(x) a non-nil one.  Go maps that can be shared between a caller  *)
(* and a returned descriptor (the annotation maps) live in a heap, `maps`, *)
(* and are held by reference, so that aliasing is visible.  The logger     *)
(* parameters only write diagnostics and are left out.                     *)
(***************************************************************************)
EXTENDS Integers, Sequences, FiniteSets, TLC

VARIABLES
    otelcol,                \* params.OtelCol: the workload specification
    CloudwatchAgentPorts,   \* constants.CloudwatchAgentPorts, the built-in port list
    maps,                   \* heap of annotation maps: reference -> contents
    env,                    \* the process environment read by os.LookupEnv
    svc,                    \* what the last call of Service returned
    headless,               \* what the last call of HeadlessService returned
    monitoring,             \* what the last call of MonitoringService returned
    instr,                  \* what the last call of getDefaultInstrumentation returned
    last                    \* the operation that ran last

vars == <<otelcol, CloudwatchAgentPorts, maps, env, svc, headless, monitoring, instr, last>>

---------------------------------------------------------------------------
(* Bounds of the model *)

MaxPorts == 2
MaxImages == 8

---------------------------------------------------------------------------
(* Pointers, errors, maps *)

Nil == <<>>
Ptr(x) == <<x>>
Deref(p) == p[1]

NilMap == 0
SpecMapRef == 1
EmptyMap == [k \in {} |-> ""]

\* the contents read through a map reference; a nil map reads as empty
MapOf(heap, ref) == IF ref = NilMap THEN EmptyMap ELSE heap[ref]

\* m[k] = v on a Go map value
MapSet(m, k, v) == [x \in DOMAIN m \cup {k} |-> IF x = k THEN v ELSE m[x]]

\* delete(m, k)
MapDelete(m, k) == [x \in DOMAIN m \ {k} |-> m[x]]

\* make a new map: the first reference not in use
NewRef(heap) == CHOOSE r \in 1..(Cardinality(DOMAIN heap) + 1) :
                    /\ r \notin DOMAIN heap
                    /\ \A q \in 1..(r - 1) : q \in DOMAIN heap

---------------------------------------------------------------------------
(* service.go *)

headlessLabel == "operator.opentelemetry.io/collector-headless-service"
headlessExists == "Exists"
servingCertKey == "service.beta.openshift.io/serving-cert-secret-name"

ComponentAmazonCloudWatchAgent == "amazon-cloudwatch-agent"
ModeDaemonSet == "daemonset"
ModeDeployment == "deployment"
ServiceInternalTrafficPolicyCluster == "Cluster"
ServiceInternalTrafficPolicyLocal == "Local"

\* naming.Service, naming.HeadlessService, naming.MonitoringService
NamingService(name) == name
NamingHeadlessService(name) == NamingService(name) \o "-headless"
NamingMonitoringService(name) == NamingService(name) \o "-monitoring"

\* manifestutils.Labels: a fresh label map derived from the workload identity
Labels(meta, name, component) ==
    [k \in {"app.kubernetes.io/name", "app.kubernetes.io/instance", "app.kubernetes.io/component"} |->
        CASE k = "app.kubernetes.io/name" -> name
          [] k = "app.kubernetes.io/instance" -> meta.Namespace \o "." \o meta.Name
          [] OTHER -> component]

\* manifestutils.SelectorLabels
SelectorLabels(meta, component) ==
    [k \in {"app.kubernetes.io/instance", "app.kubernetes.io/component"} |->
        IF k = "app.kubernetes.io/instance" THEN meta.Namespace \o "." \o meta.Name
        ELSE component]

\* fmt.Sprintf("port-%d", n)
FallbackName(n) == "port-" \o ToString(n)

\* extractPortNumbersAndNames: the two map[...]bool as the sets of keys set to true
RECURSIVE extractPortNumbersAndNames(_)
extractPortNumbersAndNames(ports) ==
    IF ports = <<>> THEN [numbers |-> {}, names |-> {}]
    ELSE LET rest == extractPortNumbersAndNames(Tail(ports))
         IN  [numbers |-> rest.numbers \cup {Head(ports).Port},
              names   |-> rest.names \cup {Head(ports).Name}]

\* filterPort with the fallback not checked against the declared names
filterPort_NoFallbackCheck(candidate, portNumbers, portNames) ==
    IF candidate.Port \in portNumbers THEN Nil
    ELSE IF candidate.Name \in portNames
         THEN Ptr([candidate EXCEPT !.Name = FallbackName(candidate.Port)])
         ELSE Ptr(candidate)

\* filterPort: Nil when the candidate is dropped, else the port to keep
filterPort(candidate, portNumbers, portNames) ==
    IF candidate.Port \in portNumbers THEN Nil
    ELSE IF candidate.Name \in portNames
         THEN LET fallbackName == FallbackName(candidate.Port)
              IN  IF fallbackName \in portNames THEN Nil
                  ELSE Ptr([candidate EXCEPT !.Name = fallbackName])
         ELSE Ptr(candidate)

\* the loop of Service over the inferred ports (lines 97-102)
RECURSIVE resultingInferredPorts(_, _, _)
resultingInferredPorts(ports, portNumbers, portNames) ==
    IF ports = <<>> THEN <<>>
    ELSE LET filtered == filterPort(Head(ports), portNumbers, portNames)
             rest == resultingInferredPorts(Tail(ports), portNumbers, portNames)
         IN  IF filtered # Nil THEN <<Deref(filtered)>> \o rest ELSE rest

\* ResolvePorts appending the declared ports after the inferred ones
ResolvePorts_InferredFirst(declared, inferred) ==
    IF Len(declared) > 0
    THEN LET e == extractPortNumbersAndNames(declared)
         IN  resultingInferredPorts(inferred, e.numbers, e.names) \o declared
    ELSE inferred

\* the port list Service resolves (lines 86-105)
ResolvePorts(declared, inferred) ==
    IF Len(declared) > 0
    THEN LET e == extractPortNumbersAndNames(declared)
         IN  declared \o resultingInferredPorts(inferred, e.numbers, e.names)
    ELSE inferred

ServiceDescriptor(params, ports) ==
    [Name        |-> NamingService(params.OtelCol.Name),
     Namespace   |-> params.OtelCol.Namespace,
     Labels      |-> Labels(params.OtelCol, NamingService(params.OtelCol.Name),
                            ComponentAmazonCloudWatchAgent),
     Annotations |-> params.OtelCol.Annotations,
     Spec        |-> [InternalTrafficPolicy |->
                          IF params.OtelCol.Spec.Mode = ModeDaemonSet
                          THEN ServiceInternalTrafficPolicyLocal
                          ELSE ServiceInternalTrafficPolicyCluster,
                      Selector  |-> SelectorLabels(params.OtelCol, ComponentAmazonCloudWatchAgent),
                      ClusterIP |-> "",
                      Ports     |-> ports]]

\* Service skipping the service whenever there is no built-in port
Service_SkipWithoutBuiltin(params) ==
    LET ports == ResolvePorts(params.OtelCol.Spec.Ports, CloudwatchAgentPorts)
    IN  IF Len(CloudwatchAgentPorts) = 0
        THEN [ret |-> Nil, err |-> Nil]
        ELSE [ret |-> Ptr(ServiceDescriptor(params, ports)), err |-> Nil]

\* Service: [ret, err]
Service(params) ==
    LET ports == ResolvePorts(params.OtelCol.Spec.Ports, CloudwatchAgentPorts)
    IN  IF Len(ports) = 0
        THEN [ret |-> Nil, err |-> Nil]
        ELSE [ret |-> Ptr(ServiceDescriptor(params, ports)), err |-> Nil]

\* HeadlessService writing the serving-cert annotation into the map Service returned
HeadlessService_InPlace(params, heap) ==
    LET r == Service(params)
    IN  IF r.ret = Nil \/ r.err # Nil
        THEN [ret |-> r.ret, err |-> r.err, maps |-> heap]
        ELSE LET h == Deref(r.ret)
                 name == NamingHeadlessService(params.OtelCol.Name)
                 ref == IF h.Annotations = NilMap THEN NewRef(heap) ELSE h.Annotations
                 annotations == MapSet(MapOf(heap, h.Annotations), servingCertKey, name \o "-tls")
             IN  [ret |-> Ptr([h EXCEPT !.Name = name,
                                        !.Labels = MapSet(h.Labels, headlessLabel, headlessExists),
                                        !.Annotations = ref,
                                        !.Spec.ClusterIP = "None"]),
                  err |-> Nil,
                  maps |-> [x \in DOMAIN heap \cup {ref} |-> IF x = ref THEN annotations ELSE heap[x]]]

\* HeadlessService copying first and setting the serving-cert annotation last
HeadlessService_CertLast(params, heap) ==
    LET r == Service(params)
    IN  IF r.ret = Nil \/ r.err # Nil
        THEN [ret |-> r.ret, err |-> r.err, maps |-> heap]
        ELSE LET h == Deref(r.ret)
                 name == NamingHeadlessService(params.OtelCol.Name)
                 ref == NewRef(heap)
                 annotations == MapSet(MapOf(heap, h.Annotations), servingCertKey, name \o "-tls")
             IN  [ret |-> Ptr([h EXCEPT !.Name = name,
                                        !.Labels = MapSet(h.Labels, headlessLabel, headlessExists),
                                        !.Annotations = ref,
                                        !.Spec.ClusterIP = "None"]),
                  err |-> Nil,
                  maps |-> [x \in DOMAIN heap \cup {ref} |-> IF x = ref THEN annotations ELSE heap[x]]]

\* HeadlessService: [ret, err, maps], maps being the heap after the call
HeadlessService(params, heap) ==
    LET r == Service(params)
    IN  IF r.ret = Nil \/ r.err # Nil
        THEN [ret |-> r.ret, err |-> r.err, maps |-> heap]
        ELSE LET h == Deref(r.ret)
                 name == NamingHeadlessService(params.OtelCol.Name)
                 base == MapOf(heap, h.Annotations)
                 \* the literal holds the serving-cert entry; the range loop then
                 \* assigns every entry of h.Annotations over it
                 annotations == [k \in {servingCertKey} \cup DOMAIN base |->
                                    IF k \in DOMAIN base THEN base[k] ELSE name \o "-tls"]
                 ref == NewRef(heap)
             IN  [ret |-> Ptr([h EXCEPT !.Name = name,
                                        !.Labels = MapSet(h.Labels, headlessLabel, headlessExists),
                                        !.Annotations = ref,
                                        !.Spec.ClusterIP = "None"]),
                  err |-> Nil,
                  maps |-> [x \in DOMAIN heap \cup {ref} |-> IF x = ref THEN annotations ELSE heap[x]]]

\* adapters.ConfigFromString: [cfg, err]
ConfigFromString(text) ==
    CASE text = "receivers: {}" ->
            [cfg |-> [metricsPort |-> Nil], err |-> Nil]
      [] text = "service: {telemetry: {metrics: {address: 0.0.0.0:8888}}}" ->
            [cfg |-> [metricsPort |-> Ptr(8888)], err |-> Nil]
      [] OTHER ->
            [cfg |-> [metricsPort |-> Nil],
             err |-> Ptr("couldn't parse the opentelemetry-collector configuration")]

\* adapters.ConfigToMetricsPort: [port, err]
ConfigToMetricsPort(c) ==
    IF c.metricsPort = Nil
    THEN [port |-> 0, err |-> Ptr("missing port in metrics address")]
    ELSE [port |-> Deref(c.metricsPort), err |-> Nil]

MonitoringDescriptor(params, metricsPort) ==
    LET name == NamingMonitoringService(params.OtelCol.Name)
    IN  [Name        |-> name,
         Namespace   |-> params.OtelCol.Namespace,
         Labels      |-> Labels(params.OtelCol, name, ComponentAmazonCloudWatchAgent),
         Annotations |-> params.OtelCol.Annotations,
         Spec        |-> [Selector  |-> SelectorLabels(params.OtelCol, ComponentAmazonCloudWatchAgent),
                          ClusterIP |-> "",
                          Ports     |-> <<[Name |-> "monitoring", Port |-> metricsPort,
                                           Protocol |-> "", TargetPort |-> 0]>>]]

\* MonitoringService falling back to a default port instead of failing
MonitoringService_Swallow(params) ==
    LET c == ConfigFromString(params.OtelCol.Spec.Config)
        m == ConfigToMetricsPort(c.cfg)
    IN  IF c.err # Nil \/ m.err # Nil
        THEN [ret |-> Ptr(MonitoringDescriptor(params, 8888)), err |-> Nil]
        ELSE [ret |-> Ptr(MonitoringDescriptor(params, m.port)), err |-> Nil]

\* MonitoringService: [ret, err]
MonitoringService(params) ==
    LET c == ConfigFromString(params.OtelCol.Spec.Config)
    IN  IF c.err # Nil
        THEN [ret |-> Nil, err |-> c.err]
        ELSE LET m == ConfigToMetricsPort(c.cfg)
             IN  IF m.err # Nil
                 THEN [ret |-> Nil, err |-> m.err]
                 ELSE [ret |-> Ptr(MonitoringDescriptor(params, m.port)), err |-> Nil]

---------------------------------------------------------------------------
(* the default instrumentation builder *)

defaultAPIVersion == "cloudwatch.aws.amazon.com/v1alpha1"
defaultInstrumenation == "java-instrumentation"
defaultNamespace == "default"
defaultKind == "Instrumentation"

otelSampleEnabledKey == "OTEL_SMP_ENABLED"
otelSampleEnabledDefaultValue == "true"
otelTracesSamplerArgKey == "OTEL_TRACES_SAMPLER_ARG"
otelTracesSamplerArgDefaultValue == "endpoint=http://cloudwatch-agent.amazon-cloudwatch:2000"
otelTracesSamplerKey == "OTEL_TRACES_SAMPLER"
otelTracesSamplerDefaultValue == "xray"
otelExporterOtlpProtocolKey == "OTEL_EXPORTER_OTLP_PROTOCOL"
otelExporterOtlpProtocolValue == "http/protobuf"
otelExporterTracesEndpointKey == "OTEL_EXPORTER_OTLP_TRACES_ENDPOINT"
otelExporterTracesEndpointDefaultValue == "http://cloudwatch-agent.amazon-cloudwatch:4316/v1/traces"
otelExporterSmpEndpointKey == "OTEL_AWS_SMP_EXPORTER_ENDPOINT"
otelExporterSmpEndpointDefaultValue == "http://cloudwatch-agent.amazon-cloudwatch:4315"
otelExporterMetricKey == "OTEL_METRICS_EXPORTER"
otelExporterMetricDefaultValue == "none"
otelPythonDistro == "OTEL_PYTHON_DISTRO"
otelPythonDistroDefaultValue == "aws_distro"
otelPythonConfigurator == "OTEL_PYTHON_CONFIGURATOR"
otelPythonConfiguratorDefaultValue == "aws_configurator"

EnvVar(n, v) == [Name |-> n, Value |-> v]

\* os.LookupEnv: [value, ok]
LookupEnv(key) ==
    IF key \in DOMAIN env THEN [value |-> env[key], ok |-> TRUE]
    ELSE [value |-> "", ok |-> FALSE]

\* the Java block's Env literal (lines 72-80)
JavaEnv ==
    << EnvVar(otelSampleEnabledKey, otelSampleEnabledDefaultValue),
       EnvVar(otelTracesSamplerArgKey, otelTracesSamplerArgDefaultValue),
       EnvVar(otelTracesSamplerKey, otelTracesSamplerDefaultValue),
       EnvVar(otelExporterOtlpProtocolKey, otelExporterOtlpProtocolValue),
       EnvVar(otelExporterTracesEndpointKey, otelExporterTracesEndpointDefaultValue),
       EnvVar(otelExporterSmpEndpointKey, otelExporterSmpEndpointDefaultValue),
       EnvVar(otelExporterMetricKey, otelExporterMetricDefaultValue) >>

\* the Python block's Env literal (lines 84-93)
PythonEnv ==
    << EnvVar(otelSampleEnabledKey, otelSampleEnabledDefaultValue),
       EnvVar(otelTracesSamplerArgKey, otelTracesSamplerArgDefaultValue),
       EnvVar(otelExporterOtlpProtocolKey, otelExporterOtlpProtocolValue),
       EnvVar(otelExporterTracesEndpointKey, otelExporterTracesEndpointDefaultValue),
       EnvVar(otelExporterSmpEndpointKey, otelExporterSmpEndpointDefaultValue),
       EnvVar(otelExporterMetricKey, otelExporterMetricDefaultValue),
       EnvVar(otelPythonDistro, otelPythonDistroDefaultValue),
       EnvVar(otelPythonConfigurator, otelPythonConfiguratorDefaultValue) >>

InstrumentationDescriptor(javaImage, pythonImage) ==
    [APIVersion |-> defaultAPIVersion,
     Kind       |-> defaultKind,
     Name       |-> defaultInstrumenation,
     Namespace  |-> defaultNamespace,
     Spec       |-> [Propagators |-> <<"tracecontext", "baggage", "b3", "xray">>,
                     Java   |-> [Image |-> javaImage, Env |-> JavaEnv],
                     Python |-> [Image |-> pythonImage, Env |-> PythonEnv]]]

\* getDefaultInstrumentation treating an empty value as a missing one
getDefaultInstrumentation_EmptyIsMissing ==
    LET java == LookupEnv("AUTO_INSTRUMENTATION_JAVA")
        python == LookupEnv("AUTO_INSTRUMENTATION_PYTHON")
    IN  IF java.value = ""
        THEN [ret |-> Nil, err |-> Ptr("unable to determine java instrumentation image")]
        ELSE IF python.value = ""
             THEN [ret |-> Nil, err |-> Ptr("unable to determine python instrumentation image")]
             ELSE [ret |-> Ptr(InstrumentationDescriptor(java.value, python.value)), err |-> Nil]

\* getDefaultInstrumentation: [ret, err]
getDefaultInstrumentation ==
    LET java == LookupEnv("AUTO_INSTRUMENTATION_JAVA")
    IN  IF ~java.ok
        THEN [ret |-> Nil, err |-> Ptr("unable to determine java instrumentation image")]
        ELSE LET python == LookupEnv("AUTO_INSTRUMENTATION_PYTHON")
             IN  IF ~python.ok
                 THEN [ret |-> Nil, err |-> Ptr("unable to determine python instrumentation image")]
                 ELSE [ret |-> Ptr(InstrumentationDescriptor(java.value, python.value)),
                       err |-> Nil]

---------------------------------------------------------------------------
(* Inputs *)

SeqsUpTo(S, n) == UNION {[1..k -> S] : k \in 0..n}

PortNames == {"metrics", "port-4317"}
PortNumbers == {4317, 8888}

ServicePort(name, port, protocol, targetPort) ==
    [Name |-> name, Port |-> port, Protocol |-> protocol, TargetPort |-> targetPort]

PortUniverse ==
    {ServicePort(n, p, "TCP", 0) : n \in PortNames, p \in PortNumbers}
        \cup {ServicePort("metrics", 4317, "UDP", 4317)}

Modes == {ModeDeployment, ModeDaemonSet}

ConfigTexts == {"receivers: [", "receivers: {}",
                "service: {telemetry: {metrics: {address: 0.0.0.0:8888}}}"}

AnnotationKeys == {servingCertKey, "team"}
AnnotationValues == {"custom"}
AnnotationMaps == UNION {[K -> AnnotationValues] : K \in SUBSET AnnotationKeys}

ImageKeys == {"AUTO_INSTRUMENTATION_JAVA", "AUTO_INSTRUMENTATION_PYTHON"}
ImageRefs == {""} \cup {"registry/agent:" \o ToString(i) : i \in 1..MaxImages}

OtelCol(annotations, mode, ports, config) ==
    [Name        |-> "agent",
     Namespace   |-> "amazon-cloudwatch",
     Annotations |-> annotations,
     Spec        |-> [Mode |-> mode, Ports |-> ports, Config |-> config,
                      Image |-> "cloudwatch-agent:latest"]]

Params == [OtelCol |-> otelcol]

NoCall == <<>>
NoOp == [op |-> "", on |-> ""]

---------------------------------------------------------------------------
(* Operations *)

\* the result slot of a variant
Slot(target) ==
    CASE target = "svc" -> svc
      [] target = "headless" -> headless
      [] OTHER -> monitoring

Returned(target) == Slot(target) # NoCall /\ Deref(Slot(target)).ret # Nil

\* the annotation map reference a returned descriptor holds
AnnotationsRef(target) == Deref(Deref(Slot(target)).ret).Annotations

\* the map references still held once the previous headless descriptor is dropped
HeldRefs ==
    {otelcol.Annotations}
        \cup (IF Returned("svc") THEN {AnnotationsRef("svc")} ELSE {})
        \cup (IF Returned("monitoring") THEN {AnnotationsRef("monitoring")} ELSE {})

CallService ==
    /\ svc' = Ptr(Service(Params))
    /\ last' = [op |-> "Service", on |-> "svc"]
    /\ UNCHANGED <<otelcol, CloudwatchAgentPorts, maps, env, headless, monitoring, instr>>

CallHeadlessService ==
    LET live == [x \in DOMAIN maps \cap HeldRefs |-> maps[x]]
        r == HeadlessService(Params, live)
    IN  /\ headless' = Ptr([ret |-> r.ret, err |-> r.err])
        /\ maps' = r.maps
        /\ last' = [op |-> "HeadlessService", on |-> "headless"]
        /\ UNCHANGED <<otelcol, CloudwatchAgentPorts, env, svc, monitoring, instr>>

CallMonitoringService ==
    /\ monitoring' = Ptr(MonitoringService(Params))
    /\ last' = [op |-> "MonitoringService", on |-> "monitoring"]
    /\ UNCHANGED <<otelcol, CloudwatchAgentPorts, maps, env, svc, headless, instr>>

\* the caller assigns an entry of a returned descriptor's annotation map
SetAnnotation(target, k, v) ==
    /\ Returned(target)
    /\ AnnotationsRef(target) # NilMap
    /\ maps' = [maps EXCEPT ![AnnotationsRef(target)] = MapSet(@, k, v)]
    /\ last' = [op |-> "Set", on |-> target]
    /\ UNCHANGED <<otelcol, CloudwatchAgentPorts, env, svc, headless, monitoring, instr>>

\* the caller deletes an entry of a returned descriptor's annotation map
DeleteAnnotation(target, k) ==
    /\ Returned(target)
    /\ AnnotationsRef(target) # NilMap
    /\ maps' = [maps EXCEPT ![AnnotationsRef(target)] = MapDelete(@, k)]
    /\ last' = [op |-> "Delete", on |-> target]
    /\ UNCHANGED <<otelcol, CloudwatchAgentPorts, env, svc, headless, monitoring, instr>>

CallGetDefaultInstrumentation ==
    /\ instr' = Ptr(getDefaultInstrumentation)
    /\ last' = [op |-> "getDefaultInstrumentation", on |-> "instr"]
    /\ UNCHANGED <<otelcol, CloudwatchAgentPorts, maps, env, svc, headless, monitoring>>

---------------------------------------------------------------------------
(* Specifications *)

NoResults ==
    /\ svc = NoCall
    /\ headless = NoCall
    /\ monitoring = NoCall
    /\ instr = NoCall
    /\ last = NoOp

\* the three service builders on one specification, and a caller that edits
\* the annotation maps of the descriptors it got back
Init ==
    /\ \E a \in {NilMap, SpecMapRef}, m \in Modes, c \in ConfigTexts,
          d \in {<<>>, <<ServicePort("metrics", 8888, "TCP", 0)>>} :
            otelcol = OtelCol(a, m, d, c)
    /\ CloudwatchAgentPorts \in
            {<<>>, <<ServicePort("metrics", 4317, "TCP", 0)>>}
    /\ \E content \in AnnotationMaps :
            maps = IF otelcol.Annotations = NilMap
                   THEN [x \in {} |-> EmptyMap]
                   ELSE [x \in {SpecMapRef} |-> content]
    /\ env = EmptyMap
    /\ NoResults

Next ==
    \/ CallService
    \/ CallHeadlessService
    \/ CallMonitoringService
    \/ \E t \in {"svc", "headless", "monitoring"}, k \in AnnotationKeys, v \in AnnotationValues :
            SetAnnotation(t, k, v)
    \/ \E t \in {"svc", "headless", "monitoring"}, k \in AnnotationKeys :
            DeleteAnnotation(t, k)

Spec == Init /\ [][Next]_vars

\* port resolution: every declared and built-in port list up to MaxPorts entries
InitPorts ==
    /\ \E d \in SeqsUpTo(PortUniverse, MaxPorts) :
            otelcol = OtelCol(NilMap, ModeDeployment, d, "receivers: {}")
    /\ CloudwatchAgentPorts \in SeqsUpTo(PortUniverse, MaxPorts)
    /\ maps = [x \in {} |-> EmptyMap]
    /\ env = EmptyMap
    /\ NoResults

NextPorts ==
    \/ CallService
    \/ CallHeadlessService

SpecPorts == InitPorts /\ [][NextPorts]_vars

\* the instrumentation builder under every environment
InitInstr ==
    /\ otelcol = OtelCol(NilMap, ModeDeployment, <<>>, "receivers: {}")
    /\ CloudwatchAgentPorts = <<>>
    /\ maps = [x \in {} |-> EmptyMap]
    /\ env \in UNION {[K -> ImageRefs] : K \in SUBSET ImageKeys}
    /\ NoResults

NextInstr == CallGetDefaultInstrumentation

SpecInstr == InitInstr /\ [][NextInstr]_vars

---------------------------------------------------------------------------
(* Properties of the port resolution (SpecPorts) *)

Declared == otelcol.Spec.Ports
Inferred == CloudwatchAgentPorts
PortsOf(target) == Deref(Deref(Slot(target)).ret).Spec.Ports

NoDuplicates(ports) ==
    \A i, j \in 1..Len(ports) :
        i # j => ports[i].Port # ports[j].Port /\ ports[i].Name # ports[j].Name

\* C1: the port list of every descriptor Service or HeadlessService returns has
\* no two entries with the same number and no two entries with the same name.
NoDuplicatePorts ==
    \A t \in {"svc", "headless"} : Returned(t) => NoDuplicates(PortsOf(t))

\* q comes from the inferred port p: same number, protocol and target port,
\* under p's name or under p's fallback name
FromInferred(q, p) ==
    /\ q.Port = p.Port
    /\ q.Protocol = p.Protocol
    /\ q.TargetPort = p.TargetPort
    /\ q.Name \in {p.Name, "port-" \o ToString(p.Port)}

\* out is made of entries that come from entries of inferred, in inferred's order
RECURSIVE InInferredOrder(_, _)
InInferredOrder(out, inferred) ==
    IF out = <<>> THEN TRUE
    ELSE IF inferred = <<>> THEN FALSE
    ELSE \/ /\ FromInferred(Head(out), Head(inferred))
            /\ InInferredOrder(Tail(out), Tail(inferred))
         \/ InInferredOrder(out, Tail(inferred))

\* C2: with a non-empty declared list D, the returned port list begins with D
\* exactly, and what follows comes from inferred ports in their original order.
PriorityLaw ==
    (svc # NoCall /\ Len(Declared) > 0) =>
        /\ Returned("svc")
        /\ LET out == PortsOf("svc")
           IN  /\ Len(out) >= Len(Declared)
               /\ SubSeq(out, 1, Len(Declared)) = Declared
               /\ InInferredOrder(SubSeq(out, Len(Declared) + 1, Len(out)), Inferred)

PriorityLawWitness ==
    /\ Returned("svc")
    /\ Len(Declared) > 0
    /\ Len(PortsOf("svc")) > Len(Declared)
    /\ Len(PortsOf("svc")) < Len(Declared) + Len(Inferred)

\* C8: Service and HeadlessService never return an error, and return nil
\* exactly when the declared list and the built-in list are both empty.
IntentionalAbsence ==
    \A t \in {"svc", "headless"} :
        Slot(t) # NoCall =>
            /\ Deref(Slot(t)).err = Nil
            /\ (Deref(Slot(t)).ret = Nil) <=> (Len(Declared) = 0 /\ Len(Inferred) = 0)
            /\ Returned(t) => Len(PortsOf(t)) > 0

IntentionalAbsenceWitness ==
    /\ svc # NoCall
    /\ headless # NoCall
    /\ Deref(svc).ret = Nil
    /\ Deref(headless).ret = Nil

\* the decision the rule makes for the inferred port p against the declared ports
Decision(p, declared) ==
    IF \E i \in 1..Len(declared) : declared[i].Port = p.Port THEN Nil
    ELSE IF \E i \in 1..Len(declared) : declared[i].Name = p.Name
         THEN IF \E i \in 1..Len(declared) : declared[i].Name = "port-" \o ToString(p.Port)
              THEN Nil
              ELSE Ptr(ServicePort("port-" \o ToString(p.Port), p.Port, p.Protocol, p.TargetPort))
         ELSE Ptr(p)

Kept(declared, inferred) ==
    LET decided == [i \in 1..Len(inferred) |-> Decision(inferred[i], declared)]
        kept == SelectSeq(decided, LAMBDA x : x # Nil)
    IN  [i \in 1..Len(kept) |-> Deref(kept[i])]

ExampleRename ==
    (Declared = <<ServicePort("metrics", 8888, "TCP", 0)>>
        /\ Inferred = <<ServicePort("metrics", 4317, "TCP", 0)>>)
    => PortsOf("svc") = <<ServicePort("metrics", 8888, "TCP", 0),
                          ServicePort("port-4317", 4317, "TCP", 0)>>

ExampleDrop ==
    (Declared = <<ServicePort("metrics", 8888, "TCP", 0), ServicePort("port-4317", 4317, "TCP", 0)>>
        /\ Inferred = <<ServicePort("metrics", 4317, "TCP", 0)>>)
    => PortsOf("svc") = Declared

\* C10: with a non-empty declared list, each inferred port is dropped when its
\* number is declared, renamed to port-<number> when only its name is declared
\* (dropped when that name is declared too), and kept unchanged otherwise.
PerPortResolution ==
    (svc # NoCall /\ Len(Declared) > 0) =>
        /\ Returned("svc")
        /\ PortsOf("svc") = Declared \o Kept(Declared, Inferred)
        /\ ExampleRename
        /\ ExampleDrop

PerPortResolutionWitness ==
    /\ Returned("svc")
    /\ Declared = <<ServicePort("metrics", 8888, "TCP", 0), ServicePort("port-4317", 8888, "TCP", 0)>>
    /\ Inferred = <<ServicePort("metrics", 4317, "UDP", 4317)>>
    /\ PortsOf("svc") = Declared

---------------------------------------------------------------------------
(* Properties of the three builders and the annotation maps (Spec) *)

\* the contents of the specification's annotation map
SpecAnnotations == MapOf(maps, otelcol.Annotations)

\* the contents of the annotation map of a returned descriptor
AnnotationsOf(target) == MapOf(maps, AnnotationsRef(target))

HeadlessName == otelcol.Name \o "-headless"

\* what every headless descriptor carries, A being the annotations of the
\* descriptor Service returns for the specification as it is now
HeadlessShape ==
    /\ Returned("headless")
    /\ Deref(headless).err = Nil
    /\ LET h == Deref(Deref(headless).ret)
       IN  /\ h.Name = HeadlessName
           /\ h.Spec.ClusterIP = "None"
           /\ headlessLabel \in DOMAIN h.Labels
           /\ h.Labels[headlessLabel] = "Exists"
           /\ \A k \in DOMAIN SpecAnnotations :
                  k \in DOMAIN AnnotationsOf("headless")
                      /\ AnnotationsOf("headless")[k] = SpecAnnotations[k]
           /\ servingCertKey \in DOMAIN AnnotationsOf("headless")

\* C3 as stated: the headless descriptor carries every annotation of A and maps
\* the serving-cert key to "<headless name>-tls", whatever A holds.
HeadlessDerivationAsClaimed ==
    (last.op = "HeadlessService" /\ Service(Params).ret # Nil) =>
        /\ HeadlessShape
        /\ AnnotationsOf("headless")[servingCertKey] = HeadlessName \o "-tls"

\* C3 amended: the headless descriptor carries every annotation of A, and maps
\* the serving-cert key to "<headless name>-tls" unless A holds that key, in
\* which case A's value is kept.
HeadlessDerivation ==
    (last.op = "HeadlessService" /\ Service(Params).ret # Nil) =>
        /\ HeadlessShape
        /\ servingCertKey \notin DOMAIN SpecAnnotations =>
               AnnotationsOf("headless")[servingCertKey] = HeadlessName \o "-tls"

HeadlessDerivationWitness ==
    /\ last.op = "HeadlessService"
    /\ Returned("headless")
    /\ servingCertKey \in DOMAIN SpecAnnotations
    /\ "team" \in DOMAIN SpecAnnotations
    /\ AnnotationsOf("headless")[servingCertKey] = "custom"

\* C4: a call of HeadlessService, and every later edit of the annotation map it
\* returned, leaves the specification's annotation map as it was; the returned
\* map is not the specification's map.
HeadlessAnnotationIsolation ==
    [][last'.on = "headless" =>
          /\ SpecAnnotations' = SpecAnnotations
          /\ Returned("headless")' =>
                 AnnotationsRef("headless")' \notin {NilMap, otelcol.Annotations}]_vars

HeadlessAnnotationIsolationWitness ==
    /\ last = [op |-> "Set", on |-> "headless"]
    /\ otelcol.Annotations = SpecMapRef
    /\ "team" \in DOMAIN AnnotationsOf("headless")
    /\ "team" \notin DOMAIN SpecAnnotations
    /\ servingCertKey \notin DOMAIN SpecAnnotations

\* C7: an edit of the annotation map of any returned descriptor leaves the
\* specification's annotation map, and the maps of the other returned
\* descriptors, as they were.
DefensiveCopyEverywhere ==
    [][last'.op \in {"Set", "Delete"} =>
          /\ SpecAnnotations' = SpecAnnotations
          /\ \A t \in {"svc", "headless", "monitoring"} :
                 (t # last'.on /\ Returned(t)) => AnnotationsOf(t)' = AnnotationsOf(t)]_vars

\* a returned descriptor with the contents of its annotation map in place of the reference
View(ret, heap) ==
    IF ret = Nil THEN Nil
    ELSE Ptr([Deref(ret) EXCEPT !.Annotations = MapOf(heap, @)])

WithConfig(text) == [OtelCol |-> [otelcol EXCEPT !.Spec.Config = text]]

\* C9: MonitoringService fails with the collaborator's error when the
\* configuration does not parse or yields no metrics port, and otherwise returns
\* a descriptor with the single port "monitoring"; what Service and
\* HeadlessService return is the same under every configuration text.
MonitoringFailureIsolation ==
    /\ monitoring # NoCall =>
          LET r == Deref(monitoring)
              c == ConfigFromString(otelcol.Spec.Config)
              m == ConfigToMetricsPort(c.cfg)
          IN  IF c.err # Nil THEN r.ret = Nil /\ r.err = c.err
              ELSE IF m.err # Nil THEN r.ret = Nil /\ r.err = m.err
              ELSE /\ r.err = Nil
                   /\ r.ret # Nil
                   /\ Deref(r.ret).Spec.ClusterIP = ""
                   /\ Len(Deref(r.ret).Spec.Ports) = 1
                   /\ Deref(r.ret).Spec.Ports[1].Name = "monitoring"
                   /\ Deref(r.ret).Spec.Ports[1].Port = m.port
    /\ svc # NoCall =>
          \A text \in ConfigTexts : Service(WithConfig(text)) = Deref(svc)
    /\ last.op = "HeadlessService" =>
          \A text \in ConfigTexts :
              LET r == HeadlessService(WithConfig(text), maps)
              IN  /\ r.err = Deref(headless).err
                  /\ View(r.ret, r.maps) = View(Deref(headless).ret, maps)

MonitoringFailureIsolationWitness ==
    /\ last.op = "HeadlessService"
    /\ monitoring # NoCall
    /\ Deref(monitoring).err = Ptr("missing port in metrics address")
    /\ Returned("svc")
    /\ Returned("headless")

---------------------------------------------------------------------------
(* Properties of the instrumentation builder (SpecInstr) *)

\* C5: getDefaultInstrumentation fails, naming java, when the Java entry is
\* absent; fails, naming python, when only the Python entry is absent; and
\* otherwise returns a descriptor holding the two looked-up values, an empty
\* value counting as present.
InstrumentationGating ==
    instr # NoCall =>
        LET r == Deref(instr)
        IN  /\ "AUTO_INSTRUMENTATION_JAVA" \notin DOMAIN env =>
                  r.ret = Nil /\ r.err = Ptr("unable to determine java instrumentation image")
            /\ ("AUTO_INSTRUMENTATION_JAVA" \in DOMAIN env
                    /\ "AUTO_INSTRUMENTATION_PYTHON" \notin DOMAIN env) =>
                  r.ret = Nil /\ r.err = Ptr("unable to determine python instrumentation image")
            /\ ImageKeys \subseteq DOMAIN env =>
                  /\ r.err = Nil
                  /\ r.ret # Nil
                  /\ Deref(r.ret).Spec.Java.Image = env["AUTO_INSTRUMENTATION_JAVA"]
                  /\ Deref(r.ret).Spec.Python.Image = env["AUTO_INSTRUMENTATION_PYTHON"]

InstrumentationGatingWitness ==
    /\ instr # NoCall
    /\ ImageKeys \subseteq DOMAIN env
    /\ env["AUTO_INSTRUMENTATION_JAVA"] = ""
    /\ env["AUTO_INSTRUMENTATION_PYTHON"] # ""
    /\ Deref(instr).ret # Nil

EntryNames(entries) == [i \in 1..Len(entries) |-> entries[i].Name]

SevenEntries ==
    <<"OTEL_SMP_ENABLED", "OTEL_TRACES_SAMPLER_ARG", "OTEL_TRACES_SAMPLER",
      "OTEL_EXPORTER_OTLP_PROTOCOL", "OTEL_EXPORTER_OTLP_TRACES_ENDPOINT",
      "OTEL_AWS_SMP_EXPORTER_ENDPOINT", "OTEL_METRICS_EXPORTER">>

\* C6: the Java block carries the seven entries in order, and the Python block
\* the same seven followed by OTEL_PYTHON_DISTRO and OTEL_PYTHON_CONFIGURATOR.
InstrumentationEnvLists ==
    (instr # NoCall /\ Deref(instr).ret # Nil) =>
        /\ EntryNames(Deref(Deref(instr).ret).Spec.Java.Env) = SevenEntries
        /\ EntryNames(Deref(Deref(instr).ret).Spec.Python.Env) =
               SevenEntries \o <<"OTEL_PYTHON_DISTRO", "OTEL_PYTHON_CONFIGURATOR">>

====
